---- MODULE Spec2Model ----
(***************************************************************************)
(* Model of src/server.js: an Express service over one mongoose collection *)
(* of milk bills.  Four routes (POST /api/bills, GET /api/bills,           *)
(* GET /api/bills/search, DELETE /api/bills/:id) and the start-up          *)
(* connection to the store.                                                *)
(*                                                                         *)
(* Each handler is an async function with one await on the store.  It is   *)
(* modelled by three steps: the synchronous part up to the await, the      *)
(* store executing the single operation (atomically), and the continuation *)
(* after the await that sends the response.                                *)
(*                                                                         *)
(* Text is a sequence of one-character strings.  Numbers are the integer   *)
(* valued doubles plus NaN.  Dates are whole days since 1970-01-01.        *)
(* CreatedAt (line 57) is not read by any route and is left out.           *)
(***************************************************************************)
EXTENDS Integers, Sequences, FiniteSets, TLC

\* ------------------------------------------------------------------ bounds
MaxIds == 2
MaxConcIds == 1
NumClients == 2

Clients == 1..NumClients

\* --------------------------------------------------------- raw JSON values
Undef == [t |-> "undefined", s |-> <<>>, n |-> 0]
Null == [t |-> "null", s |-> <<>>, n |-> 0]
S(s) == [t |-> "string", s |-> s, n |-> 0]
N(n) == [t |-> "number", s |-> <<>>, n |-> n]

Digits == <<"0", "1", "2", "3", "4", "5", "6", "7", "8", "9">>
DigitSet == {Digits[i] : i \in 1..10}
DigitVal(ch) == (CHOOSE i \in 1..10 : Digits[i] = ch) - 1

\* decimal digits of a non-negative integer
RECURSIVE NatToStr(_)
NatToStr(n) == IF n < 10 THEN <<Digits[n + 1]>>
               ELSE Append(NatToStr(n \div 10), Digits[(n % 10) + 1])

\* JavaScript String(v), lines 76-77
StringOf(v) ==
  CASE v.t = "undefined" -> <<"u", "n", "d", "e", "f", "i", "n", "e", "d">>
    [] v.t = "null" -> <<"n", "u", "l", "l">>
    [] v.t = "string" -> v.s
    [] v.t = "number" -> IF v.n < 0 THEN <<"-">> \o NatToStr(0 - v.n)
                         ELSE NatToStr(v.n)

\* numbers: an integer or NaN
NaN == [nan |-> TRUE, v |-> 0]
Num(n) == [nan |-> FALSE, v |-> n]

\* length of the longest prefix of s made of digits
RECURSIVE DigitPrefixLen(_)
DigitPrefixLen(s) == IF s = <<>> \/ Head(s) \notin DigitSet THEN 0
                     ELSE 1 + DigitPrefixLen(Tail(s))

RECURSIVE DigitsToNat(_)
DigitsToNat(s) == IF s = <<>> THEN 0
                  ELSE 10 * DigitsToNat(SubSeq(s, 1, Len(s) - 1)) + DigitVal(s[Len(s)])

\* JavaScript parseFloat(v), lines 79-81: the argument is converted to text
\* and its longest numeric prefix is read; no numeric prefix gives NaN.
ParseFloat(v) ==
  IF v.t = "number" THEN Num(v.n)
  ELSE LET str == StringOf(v)
           neg == str # <<>> /\ Head(str) = "-"
           rest == IF neg THEN Tail(str) ELSE str
           k == DigitPrefixLen(rest)
       IN IF k = 0 THEN NaN
          ELSE Num((IF neg THEN -1 ELSE 1) * DigitsToNat(SubSeq(rest, 1, k)))

\* dates: a day number or Invalid Date
InvalidDate == [valid |-> FALSE, t |-> 0]
DateAt(t) == [valid |-> TRUE, t |-> t]
MsPerDay == 86400000

IsLeap(y) == (y % 4 = 0 /\ y % 100 # 0) \/ y % 400 = 0
DaysInMonth(y, m) == IF m = 2 THEN (IF IsLeap(y) THEN 29 ELSE 28)
                     ELSE IF m \in {4, 6, 9, 11} THEN 30 ELSE 31

\* days from 1970-01-01 to the civil date y-m-d
DaysFromCivil(y, m, d) ==
  LET yy == IF m <= 2 THEN y - 1 ELSE y
      era == yy \div 400
      yoe == yy - era * 400
      mp == IF m > 2 THEN m - 3 ELSE m + 9
      doy == ((153 * mp + 2) \div 5) + d - 1
      doe == yoe * 365 + (yoe \div 4) - (yoe \div 100) + doy
  IN era * 146097 + doe - 719468

\* Date.parse of a text: the ISO form YYYY-MM-DD, anything else is invalid
ParseDateString(s) ==
  IF /\ Len(s) = 10
     /\ s[5] = "-" /\ s[8] = "-"
     /\ \A i \in {1, 2, 3, 4, 6, 7, 9, 10} : s[i] \in DigitSet
  THEN LET y == DigitsToNat(SubSeq(s, 1, 4))
           m == DigitsToNat(SubSeq(s, 6, 7))
           d == DigitsToNat(SubSeq(s, 9, 10))
       IN IF m \in 1..12 /\ d >= 1 /\ d <= DaysInMonth(y, m)
          THEN DateAt(DaysFromCivil(y, m, d))
          ELSE InvalidDate
  ELSE InvalidDate

\* JavaScript new Date(v), line 78
NewDate(v) ==
  CASE v.t = "undefined" -> InvalidDate
    [] v.t = "null" -> DateAt(0)
    [] v.t = "number" -> DateAt(v.n \div MsPerDay)
    [] v.t = "string" -> ParseDateString(v.s)

\* JavaScript truthiness of a query-string value, lines 127 and 146
Truthy(v) == v.t = "string" /\ v.s # <<>>


\* ------------------------------------------------------- schema, lines 22-58
\* required: true on a String path: the value is a non-empty text
RequiredString(s) == s # <<>>

\* Mobile validator, line 28: /^\d{10}$/
ValidMobile(v) == Len(v) = 10 /\ \A i \in 1..Len(v) : v[i] \in DigitSet

\* Date path, lines 32-39: the cast and the validator both refuse Invalid Date
ValidDate(d) == d.valid

\* Morning and Evening, min: 0 (lines 43, 48)
ValidQuantity(x) == x >= 0

\* a variant with min: 0
ValidRateMinZero(r) == r >= 0

\* Rate, min: 0.01 (line 53), on integer valued numbers
ValidRate(r) == 100 * r >= 1

\* the validation mongoose runs inside save(), before anything is sent to the store
Validate(doc) ==
  /\ RequiredString(doc.Name)
  /\ RequiredString(doc.Mobile) /\ ValidMobile(doc.Mobile)
  /\ ValidDate(doc.Date)
  /\ ValidQuantity(doc.Morning)
  /\ ValidQuantity(doc.Evening)
  /\ ValidRate(doc.Rate)

\* ------------------------------------------------ POST /api/bills, pure part
\* line 84: !name || !mobile || !date || isNaN(...); a Date object is never falsy
MissingOrInvalid(name, mobile, date, morning, evening, rate) ==
  name = <<>> \/ mobile = <<>> \/ FALSE \/ morning.nan \/ evening.nan \/ rate.nan

TotalLitersOf(morning, evening) == morning + evening
\* a variant that forgets the evening quantity
TotalAmountMorningOnly(morning, evening, rate) == morning * rate
TotalAmountOf(morning, evening, rate) == (morning + evening) * rate

\* lines 99-107: the document built by direct field assignment
NewBill(id, name, mobile, date, morning, evening, rate) ==
  [_id |-> id, Name |-> name, Mobile |-> mobile, Date |-> date,
   Morning |-> morning, Evening |-> evening, Rate |-> rate,
   TotalLiters |-> TotalLitersOf(morning, evening),
   TotalAmount |-> TotalAmountOf(morning, evening, rate)]

\* lines 76-81 and 99-107 on a request body
BillOfBody(id, body) ==
  NewBill(id, StringOf(body.Name), StringOf(body.Mobile), NewDate(body.Date),
          ParseFloat(body.Morning).v, ParseFloat(body.Evening).v,
          ParseFloat(body.Rate).v)

BodyMissingOrInvalid(body) ==
  MissingOrInvalid(StringOf(body.Name), StringOf(body.Mobile), NewDate(body.Date),
                   ParseFloat(body.Morning), ParseFloat(body.Evening),
                   ParseFloat(body.Rate))

\* ---------------------------------------------------- the store's $regex match
\* The pattern language of the model: a literal character, "." (any one
\* character) and "(" which, never being closed, makes the pattern invalid.
UpperCase == <<"A", "H", "I", "R", "S", "V">>
LowerCase == <<"a", "h", "i", "r", "s", "v">>
Lower(ch) ==
  IF \E i \in 1..Len(UpperCase) : UpperCase[i] = ch
  THEN LowerCase[CHOOSE i \in 1..Len(UpperCase) : UpperCase[i] = ch]
  ELSE ch

RegexCompiles(p) == \A i \in 1..Len(p) : p[i] # "("

CharMatches(pc, ch, ci) ==
  \/ pc = "."
  \/ IF ci THEN Lower(pc) = Lower(ch) ELSE pc = ch

\* an unanchored search of text s for pattern p
RegexMatches(p, s, ci) ==
  \E off \in 0..(Len(s) - Len(p)) :
    \A i \in 1..Len(p) : CharMatches(p[i], s[off + i], ci)

\* lines 127-134: the filter of GET /api/bills
ListFilter(query) ==
  IF Truthy(query)
  THEN <<[field |-> "Name", regex |-> query.s, ci |-> TRUE],
         [field |-> "Mobile", regex |-> query.s, ci |-> FALSE]>>
  ELSE <<>>

\* a variant that searches Name only
SearchFilterNameOnly(query) ==
  <<[field |-> "Name", regex |-> query.s, ci |-> TRUE]>>

\* lines 150-155: the filter of GET /api/bills/search
SearchFilter(query) ==
  <<[field |-> "Name", regex |-> query.s, ci |-> TRUE],
    [field |-> "Mobile", regex |-> query.s, ci |-> FALSE]>>

FilterCompiles(flt) == \A k \in 1..Len(flt) : RegexCompiles(flt[k].regex)

FieldOf(doc, f) == IF f = "Name" THEN doc.Name ELSE doc.Mobile

\* {} matches every document; {$or: [...]} matches when one clause does
DocMatches(doc, flt) ==
  \/ flt = <<>>
  \/ \E k \in 1..Len(flt) : RegexMatches(flt[k].regex, FieldOf(doc, flt[k].field), flt[k].ci)

\* .sort({ Date: -1 }): descending by Date, documents of equal Date in the
\* order the collection holds them
\* a variant that sorts ascending ({ Date: 1 })
RECURSIVE InsertByDateAsc(_, _)
InsertByDateAsc(doc, sorted) ==
  IF sorted = <<>> THEN <<doc>>
  ELSE IF Head(sorted).Date.t <= doc.Date.t
       THEN <<Head(sorted)>> \o InsertByDateAsc(doc, Tail(sorted))
       ELSE <<doc>> \o sorted

RECURSIVE InsertByDateDesc(_, _)
InsertByDateDesc(doc, sorted) ==
  IF sorted = <<>> THEN <<doc>>
  ELSE IF Head(sorted).Date.t >= doc.Date.t
       THEN <<Head(sorted)>> \o InsertByDateDesc(doc, Tail(sorted))
       ELSE <<doc>> \o sorted

RECURSIVE SortByDateDesc(_)
SortByDateDesc(docs) ==
  IF docs = <<>> THEN <<>>
  ELSE InsertByDateDesc(Head(docs), SortByDateDesc(Tail(docs)))

\* Bill.find(filter).sort({ Date: -1 }) on the collection coll
FindSorted(coll, flt) ==
  SortByDateDesc(SelectSeq(coll, LAMBDA doc : DocMatches(doc, flt)))

ListResult(coll, query) == FindSorted(coll, ListFilter(query))
SearchResult(coll, query) == FindSorted(coll, SearchFilter(query))

\* ------------------------------------------------ DELETE /api/bills/:id, pure
\* the path parameter: a well-formed ObjectId (numbered n) or any other text
WellFormedId(n) == [wf |-> TRUE, n |-> n]
MalformedId == [wf |-> FALSE, n |-> 0]

\* findByIdAndDelete casts the parameter to ObjectId before it queries
CastObjectIdOk(idParam) == idParam.wf

IdsOf(coll) == {coll[i]._id : i \in 1..Len(coll)}

\* a variant that removes the first document whatever its _id
RemoveFirst(coll, n) == IF coll = <<>> THEN coll ELSE Tail(coll)

RemoveById(coll, n) == SelectSeq(coll, LAMBDA doc : doc._id # n)

InsertAt(coll, k, doc) == SubSeq(coll, 1, k - 1) \o <<doc>> \o SubSeq(coll, k, Len(coll))


\* ------------------------------------------------------------------- state
VARIABLES
  dbState,  \* mongoose.connect (line 14): "connecting", "connected" or "failed"
  proc,     \* the process: "running" or "exited" (process.exit(1), line 18)
  bills,    \* the Bill collection, in the order the store holds it
  nextId,   \* the next fresh ObjectId (new Bill(), line 99)
  req       \* per client connection: the request being served and its response

vars == <<dbState, proc, bills, nextId, req>>

NoBody == [Name |-> Undef, Mobile |-> Undef, Date |-> Undef, Morning |-> Undef,
           Evening |-> Undef, Rate |-> Undef, TotalLiters |-> Undef,
           TotalAmount |-> Undef]

\* phase: "idle" no request yet; "pending" awaiting the store; "resolved" /
\* "rejected" the awaited promise has settled; "done" the response is sent.
\* out: the document being saved, or what the store returned.
Idle == [op |-> "none", body |-> NoBody, query |-> Undef, id |-> MalformedId,
         phase |-> "idle", status |-> 0, out |-> <<>>]

Request(op, body, query, id, phase, status, out) ==
  [op |-> op, body |-> body, query |-> query, id |-> id,
   phase |-> phase, status |-> status, out |-> out]

\* a client connection can carry a new request once the previous one is answered
CanSend(c) == proc = "running" /\ req[c].phase \in {"idle", "done"}

\* the store executes operations only over an open connection; until then
\* mongoose buffers them
StoreReady == proc = "running" /\ dbState = "connected"

Init ==
  /\ dbState = "connecting"
  /\ proc = "running"
  /\ bills = <<>>
  /\ nextId = 1
  /\ req = [c \in Clients |-> Idle]

\* ---------------------------------------------------- start-up, lines 13-19
\* line 15: the connection opens
Connected ==
  /\ proc = "running" /\ dbState = "connecting"
  /\ dbState' = "connected"
  /\ UNCHANGED <<proc, bills, nextId, req>>

\* the promise of line 14 rejects
ConnectError ==
  /\ proc = "running" /\ dbState = "connecting"
  /\ dbState' = "failed"
  /\ UNCHANGED <<proc, bills, nextId, req>>

\* a variant whose catch callback connects again instead of exiting
RetryOnError ==
  /\ proc = "running" /\ dbState = "failed"
  /\ dbState' = "connecting"
  /\ UNCHANGED <<proc, bills, nextId, req>>

\* lines 16-19: the catch callback ends the process
ExitOnError ==
  /\ proc = "running" /\ dbState = "failed"
  /\ proc' = "exited"
  /\ UNCHANGED <<dbState, bills, nextId, req>>

\* ------------------------------------------- POST /api/bills, lines 61-122
\* lines 65-110: up to "await bill.save()".  save() validates first and
\* rejects without reaching the store when validation fails.
PostBills(c, body) ==
  /\ CanSend(c)
  /\ IF BodyMissingOrInvalid(body)
     THEN /\ req' = [req EXCEPT ![c] = Request("create", body, Undef, MalformedId, "done", 400, <<>>)]
          /\ UNCHANGED nextId
     ELSE /\ LET doc == BillOfBody(nextId, body)
             IN req' = [req EXCEPT ![c] =
                  Request("create", body, Undef, MalformedId,
                          IF Validate(doc) THEN "pending" ELSE "rejected", 0, <<doc>>)]
          /\ nextId' = nextId + 1
  /\ UNCHANGED <<dbState, proc, bills>>

\* the store inserts the document (line 110)
BillSave(c) ==
  /\ StoreReady
  /\ req[c].op = "create" /\ req[c].phase = "pending"
  /\ \E k \in 1..(Len(bills) + 1) : bills' = InsertAt(bills, k, req[c].out[1])
  /\ req' = [req EXCEPT ![c].phase = "resolved"]
  /\ UNCHANGED <<dbState, proc, nextId>>

\* line 113 after a successful save, lines 114-121 after a rejected one
PostBillsRespond(c) ==
  /\ proc = "running"
  /\ req[c].op = "create" /\ req[c].phase \in {"resolved", "rejected"}
  /\ req' = [req EXCEPT ![c].phase = "done",
                        ![c].status = IF req[c].phase = "resolved" THEN 201 ELSE 400,
                        ![c].out = IF req[c].phase = "resolved" THEN req[c].out ELSE <<>>]
  /\ UNCHANGED <<dbState, proc, bills, nextId>>

\* -------------------------------------------- GET /api/bills, lines 124-141
\* lines 126-136: up to "await Bill.find(filter).sort(...)"
GetBills(c, query) ==
  /\ CanSend(c)
  /\ req' = [req EXCEPT ![c] = Request("list", NoBody, query, MalformedId, "pending", 0, <<>>)]
  /\ UNCHANGED <<dbState, proc, bills, nextId>>

\* ------------------------------------- GET /api/bills/search, lines 143-161
\* lines 145-155
GetSearch(c, query) ==
  /\ CanSend(c)
  /\ req' = [req EXCEPT ![c] =
       IF ~Truthy(query)
       THEN Request("search", NoBody, query, MalformedId, "done", 400, <<>>)
       ELSE Request("search", NoBody, query, MalformedId, "pending", 0, <<>>)]
  /\ UNCHANGED <<dbState, proc, bills, nextId>>

\* the store runs the find of line 136 or of lines 150-155: an invalid
\* pattern is an error, otherwise the sorted matches
BillFind(c) ==
  /\ StoreReady
  /\ req[c].op \in {"list", "search"} /\ req[c].phase = "pending"
  /\ LET flt == IF req[c].op = "list" THEN ListFilter(req[c].query)
                ELSE SearchFilter(req[c].query)
     IN req' = [req EXCEPT ![c] =
          IF FilterCompiles(flt)
          THEN [@ EXCEPT !.phase = "resolved",
                         !.out = IF req[c].op = "list" THEN ListResult(bills, req[c].query)
                                 ELSE SearchResult(bills, req[c].query)]
          ELSE [@ EXCEPT !.phase = "rejected"]]
  /\ UNCHANGED <<dbState, proc, bills, nextId>>

\* line 137 / 157 after the find, lines 138-140 / 158-160 after an error
FindRespond(c) ==
  /\ proc = "running"
  /\ req[c].op \in {"list", "search"} /\ req[c].phase \in {"resolved", "rejected"}
  /\ req' = [req EXCEPT ![c].phase = "done",
                        ![c].status = IF req[c].phase = "resolved" THEN 200 ELSE 500]
  /\ UNCHANGED <<dbState, proc, bills, nextId>>

\* ---------------------------------------- DELETE /api/bills/:id, lines 163-171
\* line 165: up to the await; a parameter that does not cast to ObjectId
\* rejects without reaching the store
DeleteBill(c, idParam) ==
  /\ CanSend(c)
  /\ req' = [req EXCEPT ![c] =
       Request("delete", NoBody, Undef, idParam,
               IF CastObjectIdOk(idParam) THEN "pending" ELSE "rejected", 0, <<>>)]
  /\ UNCHANGED <<dbState, proc, bills, nextId>>

\* a variant that finds the document and leaves it in place (findById)
BillFindByIdOnly(c) ==
  /\ StoreReady
  /\ req[c].op = "delete" /\ req[c].phase = "pending"
  /\ req' = [req EXCEPT ![c].phase = "resolved",
                        ![c].out = SelectSeq(bills, LAMBDA doc : doc._id = req[c].id.n)]
  /\ UNCHANGED <<dbState, proc, bills, nextId>>

\* the store finds the document by _id, removes it and returns it, or returns null
BillFindByIdAndDelete(c) ==
  /\ StoreReady
  /\ req[c].op = "delete" /\ req[c].phase = "pending"
  /\ req' = [req EXCEPT ![c].phase = "resolved",
                        ![c].out = SelectSeq(bills, LAMBDA doc : doc._id = req[c].id.n)]
  /\ bills' = RemoveById(bills, req[c].id.n)
  /\ UNCHANGED <<dbState, proc, nextId>>

\* lines 166-167 after the await, lines 168-170 after an error
DeleteRespond(c) ==
  /\ proc = "running"
  /\ req[c].op = "delete" /\ req[c].phase \in {"resolved", "rejected"}
  /\ req' = [req EXCEPT ![c].phase = "done",
                        ![c].status = IF req[c].phase = "rejected" THEN 500
                                      ELSE IF req[c].out = <<>> THEN 404 ELSE 200]
  /\ UNCHANGED <<dbState, proc, bills, nextId>>


\* ----------------------------------------------------- the requests explored
Asha == <<"A", "s", "h", "a">>
Ravi == <<"R", "a", "v", "i">>
Mob1 == <<"9", "8", "7", "6", "5", "4", "3", "2", "1", "0">>
Mob2 == <<"9", "1", "2", "3", "4", "5", "6", "7", "8", "0">>
Day1 == <<"2", "0", "2", "4", "-", "0", "1", "-", "0", "5">>
Day2 == <<"2", "0", "2", "3", "-", "1", "2", "-", "3", "1">>

BaseBody == [Name |-> S(Asha), Mobile |-> S(Mob1), Date |-> S(Day1),
             Morning |-> N(2), Evening |-> N(1), Rate |-> N(50),
             TotalLiters |-> Undef, TotalAmount |-> Undef]
SecondBody == [Name |-> S(Ravi), Mobile |-> S(Mob2), Date |-> S(Day2),
               Morning |-> N(0), Evening |-> S(<<"4">>), Rate |-> N(30),
               TotalLiters |-> Undef, TotalAmount |-> Undef]

RequiredFields == {"Name", "Mobile", "Date", "Morning", "Evening", "Rate"}
Absent == {Undef, Null, S(<<>>)}

\* bodies for the one-request-at-a-time exploration: the two well-formed
\* bodies, every required field absent, null or empty, and ill-formed values
SeqBodies ==
  {BaseBody, SecondBody}
  \cup {[BaseBody EXCEPT ![f] = v] : f \in RequiredFields, v \in Absent}
  \cup {[BaseBody EXCEPT !.Mobile = v] :
          v \in {S(SubSeq(Mob1, 1, 9)), S(Mob1 \o <<"1">>),
                 S(SubSeq(Mob1, 1, 9) \o <<"a">>), N(1234567890)}}
  \cup {[BaseBody EXCEPT !.Rate = v] : v \in {N(0), N(-5), S(<<"-", "1">>)}}
  \cup {[BaseBody EXCEPT !.Morning = v] : v \in {N(-1), S(<<"2", "a">>)}}
  \cup {[BaseBody EXCEPT !.Evening = v] : v \in {N(-3)}}
  \cup {[BaseBody EXCEPT !.Date = v] :
          v \in {S(<<"a", "b">>), S(<<"2", "0", "2", "4", "-", "1", "3", "-", "0", "1">>)}}
  \cup {[BaseBody EXCEPT !.TotalLiters = N(999), !.TotalAmount = N(1)]}

SeqQueries ==
  {Undef, S(<<>>), S(<<"a", "s">>), S(<<"S", "H">>), S(<<"9", "8">>), S(<<"z">>),
   S(<<".">>), S(<<"9", ".", "7">>), S(<<"(">>)}

SeqIds == {WellFormedId(n) : n \in 0..MaxIds} \cup {MalformedId}

\* requests for the concurrent exploration
ConcBodies == {BaseBody, SecondBody}
ConcListQueries == {Undef}
ConcSearchQueries == {Undef, S(<<"a", "s">>)}
ConcIds == {WellFormedId(1)}

\* ----------------------------------------------------------- specifications
Startup == Connected \/ ConnectError \/ ExitOnError

Store(c) == BillSave(c) \/ BillFind(c) \/ BillFindByIdAndDelete(c)

Respond(c) == PostBillsRespond(c) \/ FindRespond(c) \/ DeleteRespond(c)

\* requests from NumClients connections, overlapping freely
Next ==
  \/ Startup
  \/ \E c \in Clients :
       \/ \E body \in ConcBodies :
            (nextId <= MaxConcIds \/ BodyMissingOrInvalid(body)) /\ PostBills(c, body)
       \/ \E query \in ConcListQueries : GetBills(c, query)
       \/ \E query \in ConcSearchQueries : GetSearch(c, query)
       \/ \E idParam \in ConcIds : DeleteBill(c, idParam)
       \/ Store(c)
       \/ Respond(c)

Spec == Init /\ [][Next]_vars

\* one connection, one request at a time, over the wide set of requests
NextSeq ==
  \/ Startup
  \/ \E body \in SeqBodies :
       (nextId <= MaxIds \/ BodyMissingOrInvalid(body)) /\ PostBills(1, body)
  \/ \E query \in SeqQueries : GetBills(1, query)
  \/ \E query \in SeqQueries : GetSearch(1, query)
  \/ \E idParam \in SeqIds : DeleteBill(1, idParam)
  \/ Store(1)
  \/ Respond(1)

SpecSeq == Init /\ [][NextSeq]_vars

\* the runtime runs a settled promise's callback: once the connection has
\* failed, the catch callback of lines 16-19 is eventually run
SpecLive == Init /\ [][Next]_vars /\ WF_vars(ExitOnError)


\* ------------------------------------------------------------ shared notions
\* the store step of client c's request: the awaited promise settles
StoreStep(c, ops) ==
  req[c].op \in ops /\ req[c].phase = "pending" /\ req'[c].phase # "pending"

\* out holds exactly the documents of coll, each once
SameDocs(out, coll) ==
  /\ Len(out) = Len(coll)
  /\ \A i \in 1..Len(coll) : \E j \in 1..Len(out) : out[j] = coll[i]

\* for any two adjacent documents the earlier one's Date is >= the later one's
DateDescending(out) ==
  \A j \in 1..(Len(out) - 1) : out[j].Date.t >= out[j + 1].Date.t

\* q occurs in s as a contiguous run of characters, letters compared without
\* case when ci
Contains(q, s, ci) ==
  \E off \in 0..(Len(s) - Len(q)) :
    \A i \in 1..Len(q) :
      IF ci THEN Lower(q[i]) = Lower(s[off + i]) ELSE q[i] = s[off + i]

\* ------------------------------------------------------------------- C1
\* C1: every stored bill has TotalLiters = Morning + Evening and TotalAmount =
\* (Morning + Evening) * Rate; the bill a create stores carries the coerced
\* Morning, Evening and Rate of its body and totals computed from them, whatever
\* TotalLiters or TotalAmount the body supplied; and no step changes a bill
\* that stays in the store.
C1_TotalsDerived ==
  /\ [](\A i \in 1..Len(bills) :
          /\ bills[i].TotalLiters = bills[i].Morning + bills[i].Evening
          /\ bills[i].TotalAmount = (bills[i].Morning + bills[i].Evening) * bills[i].Rate)
  /\ [](\A c \in Clients :
          (req[c].op = "create" /\ req[c].phase \in {"resolved", "done"} /\ req[c].status # 400) =>
             LET doc == req[c].out[1]
                 m == ParseFloat(req[c].body.Morning).v
                 e == ParseFloat(req[c].body.Evening).v
                 r == ParseFloat(req[c].body.Rate).v
             IN /\ doc.Morning = m /\ doc.Evening = e /\ doc.Rate = r
                /\ doc.TotalLiters = m + e
                /\ doc.TotalAmount = (m + e) * r)
  /\ [][\A i \in 1..Len(bills) : \A j \in 1..Len(bills') :
          bills[i]._id = bills'[j]._id => bills[i] = bills'[j]]_vars

\* a create whose body supplied its own totals has answered 201 and its bill is
\* in the store with the computed totals
C1_Witness ==
  \E c \in Clients :
    /\ req[c].op = "create" /\ req[c].status = 201
    /\ req[c].body.TotalLiters = N(999)
    /\ \E i \in 1..Len(bills) : bills[i] = req[c].out[1] /\ bills[i].TotalLiters = 3

\* ------------------------------------------------------------------- C2
\* the cases C2 names, on the coerced values
C2_BadBody(body) ==
  LET mobile == StringOf(body.Mobile)
      morning == ParseFloat(body.Morning)
      evening == ParseFloat(body.Evening)
      rate == ParseFloat(body.Rate)
  IN \/ Len(mobile) # 10
     \/ \E i \in 1..Len(mobile) : mobile[i] \notin DigitSet
     \/ (~rate.nan /\ rate.v <= 0)
     \/ (~morning.nan /\ morning.v < 0)
     \/ (~evening.nan /\ evening.v < 0)

\* C2: a create whose Mobile is not exactly 10 digits, whose Rate is <= 0 or
\* whose Morning or Evening is < 0 never reaches the store and is answered 400;
\* the steps of such a request leave the collection as it was, and no stored
\* bill has such a value.
C2_InvalidRejected ==
  /\ [](\A c \in Clients :
          (req[c].op = "create" /\ C2_BadBody(req[c].body)) =>
             /\ req[c].phase \in {"rejected", "done"}
             /\ (req[c].phase = "done" => req[c].status = 400))
  /\ [][\A c \in Clients :
          (req'[c] # req[c] /\ req'[c].op = "create" /\ C2_BadBody(req'[c].body)) =>
             bills' = bills]_vars
  /\ [](\A i \in 1..Len(bills) :
          /\ Len(bills[i].Mobile) = 10
          /\ \A k \in 1..Len(bills[i].Mobile) : bills[i].Mobile[k] \in DigitSet
          /\ bills[i].Rate > 0 /\ bills[i].Morning >= 0 /\ bills[i].Evening >= 0)

\* a create with Rate 0 has been answered 400 while the store holds a bill
C2_Witness ==
  \E c \in Clients :
    /\ req[c].op = "create" /\ req[c].phase = "done" /\ req[c].status = 400
    /\ req[c].body.Rate = N(0)
    /\ Len(bills) = 1

\* ------------------------------------------------------------------- C3
\* C3: a create in which a required field is absent, null or the empty text is
\* answered 400 (and therefore stores nothing).
C3_MissingRejected ==
  \A c \in Clients :
    (/\ req[c].op = "create" /\ req[c].phase = "done"
     /\ \E f \in RequiredFields : req[c].body[f] \in Absent)
    => req[c].status = 400

\* ------------------------------------------------------------------- C4
\* C4: the find of a GET /api/bills without query succeeds with exactly the
\* bills in the store at that moment, ordered by Date descending, and the
\* response sent is 200 with that array.
C4_ListAll ==
  /\ [][\A c \in Clients :
          (StoreStep(c, {"list"}) /\ ~Truthy(req[c].query)) =>
             /\ req'[c].phase = "resolved"
             /\ SameDocs(req'[c].out, bills)
             /\ DateDescending(req'[c].out)]_vars
  /\ [][\A c \in Clients :
          (req[c].op = "list" /\ req[c].phase = "resolved" /\ req'[c].phase = "done") =>
             req'[c].status = 200 /\ req'[c].out = req[c].out]_vars
  /\ [](\A c \in Clients :
          (req[c].op = "list" /\ ~Truthy(req[c].query) /\ req[c].phase = "done") =>
             req[c].status = 200 /\ DateDescending(req[c].out))

\* a list without query has answered two bills, the later-dated first, which
\* the store holds in the other order
C4_Witness ==
  \E c \in Clients :
    /\ req[c].op = "list" /\ ~Truthy(req[c].query) /\ req[c].status = 200
    /\ Len(req[c].out) = 2 /\ req[c].out[1].Date.t > req[c].out[2].Date.t
    /\ Len(bills) = 2 /\ bills[1] = req[c].out[2] /\ bills[2] = req[c].out[1]

\* ------------------------------------------------------------------- C5
\* C5: the find of a GET /api/bills?query=q, q not empty, succeeds, whatever
\* characters q has, with exactly the stored bills whose Name contains q
\* (letters compared without case) or whose Mobile contains q, ordered by Date
\* descending.
C5_SubstringSearch ==
  [][\A c \in Clients :
       (StoreStep(c, {"list"}) /\ Truthy(req[c].query)) =>
          /\ req'[c].phase = "resolved"
          /\ SameDocs(req'[c].out,
                      SelectSeq(bills, LAMBDA doc :
                        \/ Contains(req[c].query.s, doc.Name, TRUE)
                        \/ Contains(req[c].query.s, doc.Mobile, FALSE)))
          /\ DateDescending(req'[c].out)]_vars

\* ------------------------------------------------------------------- C6
\* C6: a search without query (or with an empty one) is answered 400 at once,
\* with no operation handed to the store; a search with a query is never
\* answered 400; and in every state of the store, for every non-empty query,
\* the search route and the list route return the same bills in the same order
\* (and fail on the same queries).
C6_SearchEquivalent ==
  /\ \A c \in Clients :
       (req[c].op = "search" /\ ~Truthy(req[c].query)) =>
          req[c].phase = "done" /\ req[c].status = 400 /\ req[c].out = <<>>
  /\ \A c \in Clients :
       (req[c].op = "search" /\ Truthy(req[c].query)) => req[c].status # 400
  /\ \A q \in {x \in SeqQueries : Truthy(x)} :
       /\ SearchResult(bills, q) = ListResult(bills, q)
       /\ FilterCompiles(SearchFilter(q)) = FilterCompiles(ListFilter(q))

\* a search has answered 200 with the one bill, of the two stored, that its
\* query matches by Mobile only
C6_Witness ==
  \E c \in Clients :
    /\ req[c].op = "search" /\ req[c].query = S(<<"9", "8">>)
    /\ req[c].phase = "done" /\ req[c].status = 200
    /\ Len(req[c].out) = 1 /\ Len(bills) = 2
    /\ ~Contains(req[c].query.s, req[c].out[1].Name, TRUE)


\* ------------------------------------------------------------------- C7
\* C7: once a DELETE has answered 200 for an identifier, no bill with that
\* identifier is in the store; an identifier that has left the store (it was
\* assigned, is not stored and is not about to be saved) never returns to it
\* and no find executed from then on returns a bill with it; and the delete
\* leaves every other stored bill in place, unchanged.
C7_DeletedStaysDeleted ==
  /\ [](\A c \in Clients :
          (req[c].op = "delete" /\ req[c].phase = "done" /\ req[c].status = 200) =>
             /\ req[c].id.n \notin IdsOf(bills)
             /\ req[c].id.n \in 1..(nextId - 1))
  /\ [][\A n \in 1..(nextId - 1) :
          (/\ n \notin IdsOf(bills)
           /\ \A c \in Clients :
                ~(req[c].op = "create" /\ req[c].phase = "pending" /\ req[c].out[1]._id = n)) =>
             /\ n \notin IdsOf(bills')
             /\ \A c \in Clients :
                  StoreStep(c, {"list", "search"}) => n \notin IdsOf(req'[c].out)]_vars
  /\ [][\A c \in Clients :
          StoreStep(c, {"delete"}) =>
             /\ req[c].id.n \notin IdsOf(bills')
             /\ \A i \in 1..Len(bills) :
                  bills[i]._id # req[c].id.n => \E j \in 1..Len(bills') : bills'[j] = bills[i]
             /\ \A j \in 1..Len(bills') : \E i \in 1..Len(bills) : bills[i] = bills'[j]]_vars

\* a DELETE has answered 200 for the first of two stored bills and the second
\* is still stored
C7_Witness ==
  \E c \in Clients :
    /\ req[c].op = "delete" /\ req[c].phase = "done" /\ req[c].status = 200
    /\ Len(req[c].out) = 1
    /\ nextId - 1 = 2 /\ Len(bills) = 1 /\ bills[1]._id # req[c].id.n

\* ------------------------------------------------------------------- C8
\* C8: a DELETE that removed nothing, because no stored bill had the identifier
\* (never assigned, already deleted, or not a well-formed identifier), is
\* answered 404.
C8_AbsentIdNotFound ==
  \A c \in Clients :
    (req[c].op = "delete" /\ req[c].phase = "done" /\ req[c].out = <<>>) =>
       req[c].status = 404

\* ------------------------------------------------------------------- C9
\* C9: once the initial connection has failed the process eventually exits,
\* the connection is never tried again, and as long as the connection is not
\* open no request is answered 200 or 201.
C9_FailedStartupExits ==
  /\ (dbState = "failed") ~> (proc = "exited")
  /\ [][dbState = "failed" => dbState' = "failed"]_vars
  /\ [](dbState # "connected" =>
          \A c \in Clients : req[c].status \notin {200, 201})

\* the process has exited after a failed connection, leaving one request
\* answered 400 and another never answered
C9_Witness ==
  /\ proc = "exited" /\ dbState = "failed"
  /\ \E c \in Clients : req[c].phase = "done" /\ req[c].status = 400
  /\ \E c \in Clients : req[c].phase = "pending"

\* ------------------------------------------------------------------ C10
\* C10: the store step of a DELETE returns the bill exactly when the store
\* holds it and leaves the store without it, so of the DELETEs in flight for
\* one identifier at most one has been given the bill, the one given it is
\* answered 200 and the others 404; and the store step of a list or search
\* returns only bills the store holds at that moment.
C10_AtomicStoreAccess ==
  /\ [][\A c \in Clients :
          StoreStep(c, {"delete"}) =>
             /\ req'[c].phase = "resolved"
             /\ IF req[c].id.n \in IdsOf(bills)
                THEN Len(req'[c].out) = 1 /\ req'[c].out[1]._id = req[c].id.n
                ELSE req'[c].out = <<>> /\ bills' = bills
             /\ req[c].id.n \notin IdsOf(bills')]_vars
  /\ [](\A c, d \in Clients :
          (/\ c # d
           /\ req[c].op = "delete" /\ req[d].op = "delete" /\ req[c].id = req[d].id
           /\ req[c].phase \in {"resolved", "done"} /\ req[d].phase \in {"resolved", "done"})
          => (req[c].out = <<>> \/ req[d].out = <<>>))
  /\ [](\A c \in Clients :
          (req[c].op = "delete" /\ req[c].phase = "done" /\ req[c].id.wf) =>
             req[c].status = IF req[c].out = <<>> THEN 404 ELSE 200)
  /\ [][\A c \in Clients :
          StoreStep(c, {"list", "search"}) =>
             \A j \in 1..Len(req'[c].out) : \E i \in 1..Len(bills) : bills[i] = req'[c].out[j]]_vars

\* two DELETEs for the same stored bill are in flight together and the store
\* has executed both: one was given the bill, the other nothing
C10_Witness ==
  \E c, d \in Clients :
    /\ c # d
    /\ req[c].op = "delete" /\ req[d].op = "delete" /\ req[c].id = req[d].id
    /\ req[c].phase = "resolved" /\ req[c].out # <<>>
    /\ req[d].phase = "resolved" /\ req[d].out = <<>>

====
